---------------------------- MODULE Spec2Model ----------------------------
(* A model of the subfinder REST API (main.go): the two enumeration        *)
(* handlers, the domain validator, the option translation and the parsing  *)
(* of the engine's line-oriented output.                                   *)
(*                                                                         *)
(* A Go string is a sequence of one-character strings (ASCII: len() is the *)
(* number of characters).  The subfinder runner and encoding/json are      *)
(* libraries outside the repository: the runner is an environment that     *)
(* either fails or writes some text, json.Unmarshal is modelled on a       *)
(* subset of JSON (flat objects, strings, numbers, null).                  *)
EXTENDS Integers, Sequences, FiniteSets, TLC

VARIABLES
    pc,          \* per request: where its handler goroutine stands
    req,         \* per request: the decoded EnumerateRequest (and the body's fate)
    opts,        \* per request: <<>> or <<runner.Options>>
    subfinder,   \* per request: the runner instance it holds (0: none)
    idx,         \* per request: the batch loop's position in req.Domains
    output,      \* per buffer: the bytes.Buffer an invocation writes to
    results,     \* per request: results / allResults
    totalCount,  \* per request: the batch handler's totalCount
    response,    \* per request: <<>> or <<the response written>>
    runners,     \* the runner instances constructed so far (a counter of ids)
    constructed, \* history: per request, the outcomes of its NewRunner calls
    calls,       \* history: per request, the invocations started
    outcomes,    \* history: per request, the invocations ended
    arg,         \* the argument of a pure function under check
    ret1,        \* <<>> or <<its result>>
    ret2         \* <<>> or <<the result of its second copy>>

handlerVars == <<pc, req, opts, subfinder, idx, output, results, totalCount,
                 response, runners, constructed, calls, outcomes>>
vars == <<pc, req, opts, subfinder, idx, output, results, totalCount,
          response, runners, constructed, calls, outcomes, arg, ret1, ret2>>

-----------------------------------------------------------------------------
(* Strings *)

\* The characters of a word, written one by one.
Run(n) == [i \in 1..n |-> "a"]

RECURSIVE Concat(_)
Concat(ss) == IF ss = <<>> THEN <<>> ELSE Head(ss) \o Concat(Tail(ss))

\* strings.Join(parts, sep)
RECURSIVE Join(_, _)
Join(parts, sep) ==
    IF parts = <<>> THEN <<>>
    ELSE IF Len(parts) = 1 THEN parts[1]
    ELSE parts[1] \o sep \o Join(Tail(parts), sep)

\* strings.HasPrefix, strings.HasSuffix, strings.Contains for a one-character
\* prefix or suffix and a two-character needle, as isValidDomain uses them.
HasPrefix(s, c) == Len(s) >= 1 /\ s[1] = c
HasSuffix(s, c) == Len(s) >= 1 /\ s[Len(s)] = c
Contains2(s, c1, c2) == \E i \in 1..(Len(s) - 1) : s[i] = c1 /\ s[i + 1] = c2

\* strings.Index(s, sep) for a one-character sep, from 1; 0 when absent.
Index(s, sep) ==
    IF \E i \in 1..Len(s) : s[i] = sep
    THEN CHOOSE i \in 1..Len(s) : s[i] = sep /\ \A j \in 1..(i - 1) : s[j] # sep
    ELSE 0

\* strings.Split(s, sep) for a one-character sep: the part before each
\* separator, then the rest; always at least one part.
RECURSIVE Split(_, _)
Split(s, sep) ==
    LET m == Index(s, sep)
    IN  IF m = 0 THEN <<s>>
        ELSE <<SubSeq(s, 1, m - 1)>> \o Split(SubSeq(s, m + 1, Len(s)), sep)

\* unicode.IsSpace on the characters engine output is made of.
IsSpace(c) == c \in {" ", "\t", "\n", "\r"}

\* strings.TrimSpace
RECURSIVE TrimLeft(_)
TrimLeft(s) == IF s # <<>> /\ IsSpace(Head(s)) THEN TrimLeft(Tail(s)) ELSE s
RECURSIVE TrimRight(_)
TrimRight(s) ==
    IF s # <<>> /\ IsSpace(s[Len(s)]) THEN TrimRight(SubSeq(s, 1, Len(s) - 1)) ELSE s
TrimSpace(s) == TrimRight(TrimLeft(s))

-----------------------------------------------------------------------------
(* isValidDomain *)

MaxDomainLen == 253
MaxLabelLen == 63

\* isValidDomain with the label bound off by one (a 63-character label refused).
isValidDomain_badLabelBound(domain) ==
    /\ ~(Len(domain) = 0 \/ Len(domain) > MaxDomainLen)
    /\ ~(Contains2(domain, ".", ".") \/ HasPrefix(domain, ".") \/ HasSuffix(domain, "."))
    /\ LET parts == Split(domain, ".")
       IN  /\ ~(Len(parts) < 2)
           /\ \A i \in 1..Len(parts) :
                 ~(Len(parts[i]) = 0 \/ Len(parts[i]) >= MaxLabelLen)

isValidDomain(domain) ==
    /\ ~(Len(domain) = 0 \/ Len(domain) > MaxDomainLen)
    /\ ~(Contains2(domain, ".", ".") \/ HasPrefix(domain, ".") \/ HasSuffix(domain, "."))
    /\ LET parts == Split(domain, ".")
       IN  /\ ~(Len(parts) < 2)
           /\ \A i \in 1..Len(parts) :
                 ~(Len(parts[i]) = 0 \/ Len(parts[i]) > MaxLabelLen)


-----------------------------------------------------------------------------
(* Requests, options, responses *)

Requests == {1, 2}

\* EnumerateRequest before a body is decoded into it.
NoReq == [endpoint |-> "none", jsonOk |-> FALSE, Domain |-> <<>>,
          Domains |-> <<>>, Options |-> <<>>]

\* A body as json.NewDecoder(r.Body).Decode reads it: jsonOk = FALSE is a body
\* Decode refuses; Options is <<>> (nil) or <<APIOptions>>.
Body(ok, domain, domains, options) ==
    [jsonOk |-> ok, Domain |-> domain, Domains |-> domains, Options |-> options]

\* The options of the single-domain handler (main.go 126-148).
singleOptions(o) ==
    LET d == [Threads |-> 10, Timeout |-> 30, MaxEnumerationTime |-> 10,
              JSON |-> TRUE, All |-> FALSE, OnlyRecursive |-> FALSE]
    IN  IF o = <<>> THEN d
        ELSE [Threads |-> IF o[1].Threads > 0 THEN o[1].Threads ELSE d.Threads,
              Timeout |-> IF o[1].Timeout > 0 THEN o[1].Timeout ELSE d.Timeout,
              MaxEnumerationTime |->
                  IF o[1].MaxEnumerationTime > 0 THEN o[1].MaxEnumerationTime
                  ELSE d.MaxEnumerationTime,
              JSON |-> d.JSON,
              All |-> o[1].All,
              OnlyRecursive |-> o[1].OnlyRecursive]

\* batchOptions with the numeric overrides taken when they are not negative.
batchOptions_zeroWins(o) ==
    LET d == [Threads |-> 10, Timeout |-> 30, MaxEnumerationTime |-> 10,
              JSON |-> TRUE, All |-> FALSE, OnlyRecursive |-> FALSE]
    IN  IF o = <<>> THEN d
        ELSE [Threads |-> IF o[1].Threads >= 0 THEN o[1].Threads ELSE d.Threads,
              Timeout |-> IF o[1].Timeout >= 0 THEN o[1].Timeout ELSE d.Timeout,
              MaxEnumerationTime |->
                  IF o[1].MaxEnumerationTime >= 0 THEN o[1].MaxEnumerationTime
                  ELSE d.MaxEnumerationTime,
              JSON |-> d.JSON,
              All |-> o[1].All,
              OnlyRecursive |-> o[1].OnlyRecursive]

\* The options of the batch handler (main.go 229-251).
batchOptions(o) ==
    LET d == [Threads |-> 10, Timeout |-> 30, MaxEnumerationTime |-> 10,
              JSON |-> TRUE, All |-> FALSE, OnlyRecursive |-> FALSE]
    IN  IF o = <<>> THEN d
        ELSE [Threads |-> IF o[1].Threads > 0 THEN o[1].Threads ELSE d.Threads,
              Timeout |-> IF o[1].Timeout > 0 THEN o[1].Timeout ELSE d.Timeout,
              MaxEnumerationTime |->
                  IF o[1].MaxEnumerationTime > 0 THEN o[1].MaxEnumerationTime
                  ELSE d.MaxEnumerationTime,
              JSON |-> d.JSON,
              All |-> o[1].All,
              OnlyRecursive |-> o[1].OnlyRecursive]

\* fmt.Sprintf of a message and one value (a domain, an error's text).
Message(msg, v) == [msg |-> msg, arg |-> v]

\* sendError: an ErrorResponse {success, error} with the status code.  The
\* envelope has no results and no count; the fields are kept for the type.
sendError(message, statusCode) ==
    [envelope |-> "ErrorResponse", status |-> statusCode, Success |-> FALSE,
     Error |-> message, Results |-> <<>>, Count |-> 0]

\* An EnumerateResponse, encoded with the default status 200.
EnumerateResponse(res, count) ==
    [envelope |-> "EnumerateResponse", status |-> 200, Success |-> TRUE,
     Error |-> Message("", <<>>), Results |-> res, Count |-> count]

SubdomainResult(subdomain, source) ==
    [Subdomain |-> subdomain, Sources |-> <<source>>, SourceCount |-> 1]

-----------------------------------------------------------------------------
(* json.Unmarshal(line, &SubfinderJSONOutput) on a subset of JSON *)

Q == "\""
Digits == {"0", "1", "2", "3", "4", "5", "6", "7", "8", "9"}
Punct == {"{", "}", ":", ","}
W_host == <<"h", "o", "s", "t">>
W_source == <<"s", "o", "u", "r", "c", "e">>
W_input == <<"i", "n", "p", "u", "t">>
W_null == <<"n", "u", "l", "l">>

Tok(k, v) == [k |-> k, v |-> v]

\* The end of the string literal that opens at s[i] = Q: the index of the
\* closing quote, or 0 when the literal is not closed.
RECURSIVE ClosingQuote(_, _)
ClosingQuote(s, j) ==
    IF j > Len(s) THEN 0 ELSE IF s[j] = Q THEN j ELSE ClosingQuote(s, j + 1)

RECURSIVE DigitsEnd(_, _)
DigitsEnd(s, j) ==
    IF j <= Len(s) /\ s[j] \in Digits THEN DigitsEnd(s, j + 1) ELSE j - 1

\* The scanner: the tokens of s from position i on; a token of kind "bad" ends
\* the scan where no JSON token starts.
RECURSIVE Lex(_, _)
Lex(s, i) ==
    IF i > Len(s) THEN <<>>
    ELSE IF IsSpace(s[i]) THEN Lex(s, i + 1)
    ELSE IF s[i] \in Punct THEN <<Tok(s[i], <<>>)>> \o Lex(s, i + 1)
    ELSE IF s[i] = Q THEN
        LET e == ClosingQuote(s, i + 1)
        IN  IF e = 0 THEN <<Tok("bad", <<>>)>>
            ELSE <<Tok("str", SubSeq(s, i + 1, e - 1))>> \o Lex(s, e + 1)
    ELSE IF s[i] \in Digits THEN
        LET e == DigitsEnd(s, i)
        IN  <<Tok("num", SubSeq(s, i, e))>> \o Lex(s, e + 1)
    ELSE IF i + 3 <= Len(s) /\ SubSeq(s, i, i + 3) = W_null THEN
        <<Tok("null", <<>>)>> \o Lex(s, i + 4)
    ELSE <<Tok("bad", <<>>)>>

IsValue(t) == t.k \in {"str", "num", "null"}

\* key : value (, key : value)*
MembersOk(m) ==
    /\ Len(m) % 4 = 3
    /\ \A i \in 1..Len(m) :
          CASE i % 4 = 1 -> m[i].k = "str"
            [] i % 4 = 2 -> m[i].k = ":"
            [] i % 4 = 3 -> IsValue(m[i])
            [] OTHER     -> m[i].k = ","

\* The value the object gives the string field `name`: the last member of that
\* name whose value is a string (null leaves a field as it is).
FieldOf(m, name) ==
    LET at == {i \in 1..Len(m) : i % 4 = 1 /\ m[i].v = name /\ m[i + 2].k = "str"}
    IN  IF at = {} THEN <<>>
        ELSE m[(CHOOSE i \in at : \A j \in at : j <= i) + 2].v

\* A member that names a string field of SubfinderJSONOutput and holds a
\* number: an UnmarshalTypeError.
TypeError(m) ==
    \E i \in 1..Len(m) :
        i % 4 = 1 /\ m[i].v \in {W_host, W_source, W_input} /\ m[i + 2].k = "num"

\* [err, Host, Source]: err is TRUE for a syntax error and for a type error.
\* Keys are matched as written (the fixtures hold lower-case keys only); a
\* repeated key keeps its last string value, null leaves a field alone.
Unmarshal(line) ==
    LET t == Lex(line, 1)
        fail == [err |-> TRUE, Host |-> <<>>, Source |-> <<>>]
        zero == [err |-> FALSE, Host |-> <<>>, Source |-> <<>>]
    IN  IF t = <<>> \/ \E i \in 1..Len(t) : t[i].k = "bad" THEN fail
        ELSE IF Len(t) = 1 THEN (IF t[1].k = "null" THEN zero ELSE fail)
        ELSE IF t[1].k = "{" /\ t[Len(t)].k = "}" THEN
            LET m == SubSeq(t, 2, Len(t) - 1)
            IN  IF m = <<>> THEN zero
                ELSE IF ~MembersOk(m) \/ TypeError(m) THEN fail
                ELSE [err |-> FALSE, Host |-> FieldOf(m, W_host),
                      Source |-> FieldOf(m, W_source)]
        ELSE fail

-----------------------------------------------------------------------------
(* The parsing loops of the two handlers *)

FallbackSource == <<"s", "u", "b", "f", "i", "n", "d", "e", "r">>
EmptyObject == <<"{", "}">>

\* The single-domain loop for the lines from i on (main.go 168-188).
RECURSIVE singleLoop(_, _, _)
singleLoop(lines, i, res) ==
    IF i > Len(lines) THEN res
    ELSE LET line == TrimSpace(lines[i])
         IN  IF line # <<>> /\ line # EmptyObject THEN
                 LET u == Unmarshal(line)
                 IN  IF u.err
                     THEN singleLoop(lines, i + 1,
                              Append(res, SubdomainResult(line, FallbackSource)))
                     ELSE singleLoop(lines, i + 1,
                              Append(res, SubdomainResult(u.Host, u.Source)))
             ELSE singleLoop(lines, i + 1, res)

\* parseSingle with the lines compared before they are trimmed.
parseSingle_untrimmed(text) ==
    LET lines == Split(TrimSpace(text), "\n")
        keep == SelectSeq(lines, LAMBDA l : l # <<>> /\ l # EmptyObject)
    IN  [i \in 1..Len(keep) |->
            LET u == Unmarshal(TrimSpace(keep[i]))
            IN  IF u.err THEN SubdomainResult(TrimSpace(keep[i]), FallbackSource)
                ELSE SubdomainResult(u.Host, u.Source)]

\* results of the single-domain handler for the buffer's text (main.go 166-188).
parseSingle(text) ==
    singleLoop(Split(TrimSpace(text), "\n"), 1, <<>>)

\* batchLoop with totalCount left alone on the fallback branch.
RECURSIVE batchLoop_noCount(_, _, _, _)
batchLoop_noCount(lines, i, allResults, total) ==
    IF i > Len(lines) THEN [allResults |-> allResults, totalCount |-> total]
    ELSE LET line == TrimSpace(lines[i])
         IN  IF line # <<>> /\ line # EmptyObject THEN
                 LET u == Unmarshal(line)
                 IN  IF u.err
                     THEN batchLoop_noCount(lines, i + 1,
                              Append(allResults, SubdomainResult(line, FallbackSource)),
                              total)
                     ELSE batchLoop_noCount(lines, i + 1,
                              Append(allResults, SubdomainResult(u.Host, u.Source)),
                              total + 1)
             ELSE batchLoop_noCount(lines, i + 1, allResults, total)

\* The batch loop over one domain's lines (main.go 274-296): allResults and
\* totalCount are carried from the domains before.
RECURSIVE batchLoop(_, _, _, _)
batchLoop(lines, i, allResults, total) ==
    IF i > Len(lines) THEN [allResults |-> allResults, totalCount |-> total]
    ELSE LET line == TrimSpace(lines[i])
         IN  IF line # <<>> /\ line # EmptyObject THEN
                 LET u == Unmarshal(line)
                 IN  IF u.err
                     THEN batchLoop(lines, i + 1,
                              Append(allResults, SubdomainResult(line, FallbackSource)),
                              total + 1)
                     ELSE batchLoop(lines, i + 1,
                              Append(allResults, SubdomainResult(u.Host, u.Source)),
                              total + 1)
             ELSE batchLoop(lines, i + 1, allResults, total)

\* parseBatch (main.go 273-296) for one domain's buffer.
parseBatch(text, allResults, total) ==
    batchLoop(Split(TrimSpace(text), "\n"), 1, allResults, total)

-----------------------------------------------------------------------------
(* Inputs: request bodies, and what the runner does *)

MaxDomains == 2

D_ab == <<"a", ".", "b">>
D_cb == <<"c", ".", "b">>
D_xy == <<"x", ".", "y">>
S_1 == <<"s", "1">>
S_2 == <<"s", "2">>
S_3 == <<"s", "3">>

\* Domains a caller sends: two valid ones, the empty string, a trailing dot.
DomainInputs == {<<>>, D_ab, D_cb, <<"a", ".">>}
DomainLists == UNION {[1..n -> DomainInputs] : n \in 0..MaxDomains}

\* The "options" of a body: absent, or an object.
OptionInputs ==
    {<<>>,
     <<[Threads |-> 20, Timeout |-> 0, MaxEnumerationTime |-> -1,
        All |-> TRUE, OnlyRecursive |-> FALSE]>>}

SingleBodies ==
    {Body(FALSE, <<>>, <<>>, <<>>)}
        \cup {Body(TRUE, d, <<>>, o) : d \in DomainInputs, o \in OptionInputs}
BatchBodies ==
    {Body(FALSE, <<>>, <<>>, <<>>)}
        \cup {Body(TRUE, <<>>, ds, o) : ds \in DomainLists, o \in OptionInputs}

\* A JSON string literal, and a line of the runner's JSON output.
Str(w) == <<Q>> \o w \o <<Q>>
HostLine(h, src) ==
    <<"{">> \o Str(W_host) \o <<":">> \o Str(h) \o <<",">>
        \o Str(W_source) \o <<":">> \o Str(src) \o <<"}">>
NL == <<"\n">>

\* What a runner writes during one invocation: nothing, one host, a host that
\* two sources report around another host, a bare host name and an empty object.
EngineTexts ==
    {<<>>,
     HostLine(D_ab, S_1) \o NL,
     HostLine(D_ab, S_1) \o NL \o HostLine(D_cb, S_2) \o NL \o HostLine(D_ab, S_3) \o NL,
     D_xy \o NL \o EmptyObject \o NL}

\* The error of a failed NewRunner or of a failed invocation: <<>> is nil.
E_fail == <<"e", "r", "r">>
EngineErrors == {<<>>, <<E_fail>>}

-----------------------------------------------------------------------------
(* The handlers *)

\* The buffer an invocation of request r writes to: output := &bytes.Buffer{}
\* is a local of the handler's goroutine.
bufferOf_shared(r) == 1

bufferOf(r) == r

Reply(r, resp) ==
    /\ response' = [response EXCEPT ![r] = <<resp>>]
    /\ pc' = [pc EXCEPT ![r] = "done"]

\* enumerateDomainHandler up to the validation (main.go 109-124): <<>>, or
\* the error response it sends.
singleReject(body) ==
    IF ~body.jsonOk THEN <<sendError(Message("Invalid JSON payload", <<>>), 400)>>
    ELSE IF body.Domain = <<>> THEN <<sendError(Message("Domain is required", <<>>), 400)>>
    ELSE IF ~isValidDomain(body.Domain)
         THEN <<sendError(Message("Invalid domain format", <<>>), 400)>>
    ELSE <<>>

\* batchReject with only the first domain validated.
batchReject_firstOnly(body) ==
    IF ~body.jsonOk THEN <<sendError(Message("Invalid JSON payload", <<>>), 400)>>
    ELSE IF Len(body.Domains) = 0
         THEN <<sendError(Message("Domains array is required and cannot be empty", <<>>), 400)>>
    ELSE IF ~isValidDomain(body.Domains[1])
         THEN <<sendError(Message("Invalid domain format: %s", body.Domains[1]), 400)>>
    ELSE <<>>

\* enumerateBatchHandler up to the validation (main.go 210-227).
batchReject(body) ==
    IF ~body.jsonOk THEN <<sendError(Message("Invalid JSON payload", <<>>), 400)>>
    ELSE IF Len(body.Domains) = 0
         THEN <<sendError(Message("Domains array is required and cannot be empty", <<>>), 400)>>
    ELSE LET bad == {i \in 1..Len(body.Domains) : ~isValidDomain(body.Domains[i])}
         IN  IF bad # {}
             THEN LET first == CHOOSE i \in bad : \A j \in bad : i <= j
                  IN  <<sendError(Message("Invalid domain format: %s",
                                          body.Domains[first]), 400)>>
             ELSE <<>>

\* singleRespond with the buffer parsed whatever the invocation returned.
singleRespond_partial(err, text) ==
    LET res == parseSingle(text) IN EnumerateResponse(res, Len(res))

\* enumerateDomainHandler after the invocation (main.go 160-195).
singleRespond(err, text) ==
    IF err # <<>>
    THEN sendError(Message("Failed to enumerate subdomains: %v", err[1]), 500)
    ELSE LET res == parseSingle(text) IN EnumerateResponse(res, Len(res))

\* batchNext with a failed domain ending the loop.
batchNext_abort(i, n, err) == IF err # <<>> THEN n + 1 ELSE i + 1

\* batchNext with a failed domain tried again.
batchNext_retry(i, n, err) == IF err # <<>> THEN i ELSE i + 1

\* The range loop of enumerateBatchHandler (main.go 264-270): the position
\* after the domain at i of n, whatever its invocation returned.
batchNext(i, n, err) == i + 1

\* The body of the range loop after the invocation (main.go 267-296).
batchStep(err, text, allResults, total) ==
    IF err # <<>> THEN [allResults |-> allResults, totalCount |-> total]
    ELSE parseBatch(text, allResults, total)

\* POST /enumerate: decode, validate, translate the options.  The router hands
\* the handler POST requests only (OPTIONS is answered by corsMiddleware), so
\* the 405 branch is not taken; startTime and the response's duration are left
\* out, nothing else reads them.
DomainDecode(r, body) ==
    /\ pc[r] = "idle"
    /\ req' = [req EXCEPT ![r] = [endpoint |-> "single"] @@ body]
    /\ IF singleReject(body) # <<>>
       THEN /\ Reply(r, singleReject(body)[1])
            /\ UNCHANGED opts
       ELSE /\ opts' = [opts EXCEPT ![r] = <<singleOptions(body.Options)>>]
            /\ pc' = [pc EXCEPT ![r] = "configured"]
            /\ UNCHANGED response
    /\ UNCHANGED <<subfinder, idx, output, results, totalCount, runners,
                   constructed, calls, outcomes, arg, ret1, ret2>>

\* POST /enumerate/batch: decode, validate, translate the options.
BatchDecode(r, body) ==
    /\ pc[r] = "idle"
    /\ req' = [req EXCEPT ![r] = [endpoint |-> "batch"] @@ body]
    /\ IF batchReject(body) # <<>>
       THEN /\ Reply(r, batchReject(body)[1])
            /\ UNCHANGED opts
       ELSE /\ opts' = [opts EXCEPT ![r] = <<batchOptions(body.Options)>>]
            /\ pc' = [pc EXCEPT ![r] = "configured"]
            /\ UNCHANGED response
    /\ UNCHANGED <<subfinder, idx, output, results, totalCount, runners,
                   constructed, calls, outcomes, arg, ret1, ret2>>

\* runner.NewRunner(opts) in either handler (main.go 151-155, 254-258): a new
\* instance, or an error and the 500 response.  Whether it fails is the
\* library's choice.
NewRunner(r, err) ==
    /\ pc[r] = "configured"
    /\ constructed' = [constructed EXCEPT ![r] = Append(@, err)]
    /\ IF err # <<>>
       THEN /\ Reply(r, sendError(
                   Message("Failed to create subfinder runner: %v", err[1]), 500))
            /\ UNCHANGED <<runners, subfinder>>
       ELSE /\ runners' = runners + 1
            /\ subfinder' = [subfinder EXCEPT ![r] = runners + 1]
            /\ pc' = [pc EXCEPT ![r] = "ready"]
            /\ UNCHANGED response
    /\ UNCHANGED <<req, opts, idx, output, results, totalCount, calls, outcomes,
                   arg, ret1, ret2>>

\* subfinder.EnumerateSingleDomainWithCtx(ctx, domain, {output}) is called with
\* a new, empty buffer (main.go 158-159, 265-266).
Enumerate(r) ==
    /\ pc[r] = "ready"
    /\ LET domain == IF req[r].endpoint = "single" THEN req[r].Domain
                     ELSE req[r].Domains[idx[r]]
       IN  calls' = [calls EXCEPT ![r] =
                        Append(@, [domain |-> domain, runner |-> subfinder[r]])]
    /\ output' = [output EXCEPT ![bufferOf(r)] = <<>>]
    /\ pc' = [pc EXCEPT ![r] = "invoking"]
    /\ UNCHANGED <<req, opts, subfinder, idx, results, totalCount, response,
                   runners, constructed, outcomes, arg, ret1, ret2>>

\* The runner writes what it found to the buffer it was given.
EngineWrite(r, text) ==
    /\ pc[r] = "invoking"
    /\ output' = [output EXCEPT ![bufferOf(r)] = @ \o text]
    /\ outcomes' = [outcomes EXCEPT ![r] = Append(@, [text |-> text, err |-> <<>>])]
    /\ pc' = [pc EXCEPT ![r] = "written"]
    /\ UNCHANGED <<req, opts, subfinder, idx, results, totalCount, response,
                   runners, constructed, calls, arg, ret1, ret2>>

\* The invocation of the single-domain handler returns err.
DomainReturn(r, err) ==
    /\ pc[r] = "written"
    /\ req[r].endpoint = "single"
    /\ outcomes' = [outcomes EXCEPT ![r][Len(outcomes[r])].err = err]
    /\ LET resp == singleRespond(err, output[bufferOf(r)])
       IN  /\ results' = [results EXCEPT ![r] = resp.Results]
           /\ Reply(r, resp)
    /\ UNCHANGED <<req, opts, subfinder, idx, output, totalCount, runners,
                   constructed, calls, arg, ret1, ret2>>

\* An invocation of the batch handler returns err; after the last domain the
\* response is sent.
BatchReturn(r, err) ==
    /\ pc[r] = "written"
    /\ req[r].endpoint = "batch"
    /\ outcomes' = [outcomes EXCEPT ![r][Len(outcomes[r])].err = err]
    /\ LET st == batchStep(err, output[bufferOf(r)], results[r], totalCount[r])
           next == batchNext(idx[r], Len(req[r].Domains), err)
       IN  /\ results' = [results EXCEPT ![r] = st.allResults]
           /\ totalCount' = [totalCount EXCEPT ![r] = st.totalCount]
           /\ idx' = [idx EXCEPT ![r] = next]
           /\ IF next > Len(req[r].Domains)
              THEN Reply(r, EnumerateResponse(st.allResults, st.totalCount))
              ELSE /\ pc' = [pc EXCEPT ![r] = "ready"]
                   /\ UNCHANGED response
    /\ UNCHANGED <<req, opts, subfinder, output, runners, constructed, calls,
                   arg, ret1, ret2>>

InitHandlers ==
    /\ pc = [r \in Requests |-> "idle"]
    /\ req = [r \in Requests |-> NoReq]
    /\ opts = [r \in Requests |-> <<>>]
    /\ subfinder = [r \in Requests |-> 0]
    /\ idx = [r \in Requests |-> 1]
    /\ output = [r \in Requests |-> <<>>]
    /\ results = [r \in Requests |-> <<>>]
    /\ totalCount = [r \in Requests |-> 0]
    /\ response = [r \in Requests |-> <<>>]
    /\ runners = 0
    /\ constructed = [r \in Requests |-> <<>>]
    /\ calls = [r \in Requests |-> <<>>]
    /\ outcomes = [r \in Requests |-> <<>>]

NoCall == arg = <<>> /\ ret1 = <<>> /\ ret2 = <<>>

\* One request at a time, of either endpoint, with every input.
Init == InitHandlers /\ NoCall

Next ==
    \/ \E body \in SingleBodies : DomainDecode(1, body)
    \/ \E body \in BatchBodies : BatchDecode(1, body)
    \/ \E err \in EngineErrors : NewRunner(1, err)
    \/ Enumerate(1)
    \/ \E text \in EngineTexts : EngineWrite(1, text)
    \/ \E err \in EngineErrors : DomainReturn(1, err)
    \/ \E err \in EngineErrors : BatchReturn(1, err)

Spec == Init /\ [][Next]_vars

-----------------------------------------------------------------------------
(* The option translation under every kind of caller options *)

OptionCases ==
    {<<>>} \cup
    {<<[Threads |-> t, Timeout |-> u, MaxEnumerationTime |-> m,
        All |-> a, OnlyRecursive |-> o]>> :
        t \in {-5, 0, 1, 20}, u \in {-1, 0, 45}, m \in {0, 15},
        a \in BOOLEAN, o \in BOOLEAN}

NextOpts ==
    \/ \E o \in OptionCases : DomainDecode(1, Body(TRUE, D_ab, <<>>, o))
    \/ \E o \in OptionCases : BatchDecode(1, Body(TRUE, <<>>, <<D_ab>>, o))
    \/ \E err \in EngineErrors : NewRunner(1, err)
    \/ Enumerate(1)
    \/ EngineWrite(1, HostLine(D_ab, S_1) \o NL)
    \/ \E err \in EngineErrors : DomainReturn(1, err)
    \/ \E err \in EngineErrors : BatchReturn(1, err)

SpecOpts == Init /\ [][NextOpts]_vars

-----------------------------------------------------------------------------
(* isValidDomain as a function of its argument *)

MaxLabels == 4

\* Candidate domains: up to MaxLabels labels of these lengths joined by dots
\* (a label of length 0 gives a leading, trailing or doubled dot).
LabelLens == {0, 1, 61, 62, 63, 64}
ValidatorInputs ==
    UNION {{Join([i \in 1..n |-> Run(ls[i])], <<".">>) : ls \in [1..n -> LabelLens]} :
           n \in 0..MaxLabels}

InitValid == InitHandlers /\ arg \in ValidatorInputs /\ ret1 = <<>> /\ ret2 = <<>>

CallIsValidDomain ==
    /\ ret1 = <<>>
    /\ ret1' = <<isValidDomain(arg)>>
    /\ UNCHANGED <<handlerVars, arg, ret2>>

SpecValid == InitValid /\ [][CallIsValidDomain]_vars

-----------------------------------------------------------------------------
(* The parsing loops as functions of the buffer's text *)

MaxLines == 2

\* Lines a runner may write: blank, the empty object, hosts with padding, a bare
\* host name, JSON that is no object, an object of the wrong type, an object
\* without a host, a truncated object, a repeated key.
LineFixtures ==
    {<<>>,
     <<"\t">>,
     EmptyObject,
     <<" ">> \o EmptyObject \o <<"\r">>,
     <<"{", " ", "}">>,
     HostLine(D_ab, S_1),
     <<"\t">> \o HostLine(D_cb, S_2) \o <<" ">>,
     D_xy,
     <<" ">> \o D_xy \o <<"\r">>,
     W_null,
     <<"7">>,
     Str(D_ab),
     <<"{">> \o Str(W_host) \o <<":", "7", "}">>,
     <<"{">> \o Str(W_input) \o <<":", "7", ",">> \o Str(W_host) \o <<":">>
         \o Str(D_ab) \o <<"}">>,
     <<"{">> \o Str(W_source) \o <<":">> \o Str(S_1) \o <<"}">>,
     <<"{">> \o Str(W_host) \o <<":">> \o Str(D_ab),
     <<"{">> \o Str(W_host) \o <<":">> \o Str(D_ab) \o <<",">> \o Str(W_host)
         \o <<":">> \o Str(D_cb) \o <<",">> \o Str(S_1) \o <<":">> \o W_null \o <<"}">>}

ParserInputs ==
    UNION {{Concat([i \in 1..n |-> ls[i] \o NL]) : ls \in [1..n -> LineFixtures]} :
           n \in 0..MaxLines}

InitNorm == InitHandlers /\ arg \in ParserInputs /\ ret1 = <<>> /\ ret2 = <<>>

CallParseSingle ==
    /\ ret1 = <<>>
    /\ ret1' = <<parseSingle(arg)>>
    /\ UNCHANGED <<handlerVars, arg, ret2>>

CallParseBatch ==
    /\ ret2 = <<>>
    /\ ret2' = <<parseBatch(arg, <<>>, 0)>>
    /\ UNCHANGED <<handlerVars, arg, ret1>>

NextNorm == CallParseSingle \/ CallParseBatch

SpecNorm == InitNorm /\ [][NextNorm]_vars

-----------------------------------------------------------------------------
(* Two requests in flight at once *)

ConcSingleBodies == {Body(TRUE, D_ab, <<>>, <<>>), Body(TRUE, <<"a", ".">>, <<>>, <<>>)}
ConcBatchBodies == {Body(TRUE, <<>>, <<D_ab, D_cb>>, <<>>)}
ConcTexts == {HostLine(D_ab, S_1) \o NL, D_xy \o NL \o HostLine(D_cb, S_2) \o NL}

NextConc ==
    \E r \in Requests :
        \/ \E body \in ConcSingleBodies : DomainDecode(r, body)
        \/ \E body \in ConcBatchBodies : BatchDecode(r, body)
        \/ \E err \in EngineErrors : NewRunner(r, err)
        \/ Enumerate(r)
        \/ \E text \in ConcTexts : EngineWrite(r, text)
        \/ \E err \in EngineErrors : DomainReturn(r, err)
        \/ \E err \in EngineErrors : BatchReturn(r, err)

SpecConc == Init /\ [][NextConc]_vars

-----------------------------------------------------------------------------
(* What the claims are stated with *)

Resp(r) == response[r][1]

\* The invocations of r that have returned.
Returned(r) ==
    IF pc[r] \in {"written"} THEN SubSeq(outcomes[r], 1, Len(outcomes[r]) - 1)
    ELSE outcomes[r]

\* The record a line of engine output stands for, if any: nothing for a line
\* that is blank or {} once trimmed, host and source when the line parses, the
\* trimmed line with the source "subfinder" otherwise.
RecordOf(line) ==
    LET t == TrimSpace(line)
    IN  IF t = <<>> \/ t = <<"{", "}">> THEN <<>>
        ELSE IF ~Unmarshal(t).err
             THEN <<[Subdomain |-> Unmarshal(t).Host,
                     Sources |-> <<Unmarshal(t).Source>>, SourceCount |-> 1]>>
        ELSE <<[Subdomain |-> t,
                Sources |-> <<<<"s", "u", "b", "f", "i", "n", "d", "e", "r">>>>,
                SourceCount |-> 1]>>

\* The records of a text, line by line.
RecordsOf(text) ==
    LET raw == Split(text, "\n")
    IN  Concat([i \in 1..Len(raw) |-> RecordOf(raw[i])])

\* The records of the invocations of r that returned without an error.
ScopeRecords(r) ==
    LET done == Returned(r)
    IN  Concat([i \in 1..Len(done) |->
                   IF done[i].err = <<>> THEN RecordsOf(done[i].text) ELSE <<>>])

-----------------------------------------------------------------------------
(* C1 *)

\* The order-stable aggregation of records: one entry per subdomain at the
\* place of its first record, its sources in the order they first reported it.
RECURSIVE Aggregate(_, _, _)
Aggregate(recs, i, acc) ==
    IF i > Len(recs) THEN acc
    ELSE LET rec == recs[i]
             at == {j \in 1..Len(acc) : acc[j].Subdomain = rec.Subdomain}
         IN  IF at = {} THEN Aggregate(recs, i + 1, Append(acc, rec))
             ELSE LET j == CHOOSE k \in at : TRUE
                      src == rec.Sources[1]
                      has == \E k \in 1..Len(acc[j].Sources) : acc[j].Sources[k] = src
                  IN  IF has THEN Aggregate(recs, i + 1, acc)
                      ELSE Aggregate(recs, i + 1,
                               [acc EXCEPT ![j] =
                                   [Subdomain |-> acc[j].Subdomain,
                                    Sources |-> Append(acc[j].Sources, src),
                                    SourceCount |-> acc[j].SourceCount + 1]])

\* C1: the results of a success response are the order-stable aggregation of
\* the records parsed in the request's scope: each subdomain once, at its first
\* occurrence, with every source that reported it.
C1_ResultsAggregated ==
    \A r \in Requests :
        (response[r] # <<>> /\ Resp(r).Success)
            => Resp(r).Results = Aggregate(ScopeRecords(r), 1, <<>>)

-----------------------------------------------------------------------------
(* C2 *)

C2_Invalid(rq) ==
    IF rq.endpoint = "single"
    THEN rq.Domain = <<>> \/ ~isValidDomain(rq.Domain)
    ELSE rq.Domains = <<>> \/ \E i \in 1..Len(rq.Domains) : ~isValidDomain(rq.Domains[i])

\* C2: a request with an empty or invalid domain, or a batch whose list is empty
\* or holds an invalid domain at any place, is answered 400 with success=false,
\* and no runner is constructed and no invocation made for it.
C2_ValidationFirst ==
    \A r \in Requests :
        (req[r].endpoint # "none" /\ C2_Invalid(req[r]))
            => /\ pc[r] = "done"
               /\ response[r] # <<>>
               /\ Resp(r).envelope = "ErrorResponse"
               /\ Resp(r).Success = FALSE
               /\ Resp(r).status = 400
               /\ constructed[r] = <<>>
               /\ subfinder[r] = 0
               /\ calls[r] = <<>>
               /\ outcomes[r] = <<>>

\* A batch whose first domain is valid and whose second is not was refused.
C2_Witness ==
    /\ req[1].endpoint = "batch"
    /\ Len(req[1].Domains) = 2
    /\ isValidDomain(req[1].Domains[1])
    /\ ~isValidDomain(req[1].Domains[2])
    /\ response[1] # <<>>
    /\ Resp(1).status = 400
    /\ calls[1] = <<>>

-----------------------------------------------------------------------------
(* C3 *)

\* C3: in a batch that passed validation and construction, a failed invocation
\* costs only its own domain: when the handler is done every domain has been
\* invoked, the response is 200 with success=true, and results and count are
\* those of the domains whose invocation succeeded (none, when all failed).
C3_FailureIsolated ==
    \A r \in Requests :
        (req[r].endpoint = "batch" /\ constructed[r] = << <<>> >> /\ pc[r] = "done")
            => /\ response[r] # <<>>
               /\ Resp(r).status = 200
               /\ Resp(r).Success = TRUE
               /\ [i \in 1..Len(calls[r]) |-> calls[r][i].domain] = req[r].Domains
               /\ Len(outcomes[r]) = Len(req[r].Domains)
               /\ Resp(r).Results = ScopeRecords(r)
               /\ Resp(r).Count = Len(ScopeRecords(r))
               /\ ((\A i \in 1..Len(outcomes[r]) : outcomes[r][i].err # <<>>)
                      => Resp(r).Count = 0)

\* A batch of two whose first invocation failed and whose second gave results.
C3_Witness ==
    /\ req[1].endpoint = "batch"
    /\ pc[1] = "done"
    /\ Len(outcomes[1]) = 2
    /\ outcomes[1][1].err # <<>>
    /\ outcomes[1][1].text # <<>>
    /\ outcomes[1][2].err = <<>>
    /\ Resp(1).Success
    /\ Resp(1).Count = 3

-----------------------------------------------------------------------------
(* C4 *)

C4_Failed(r) ==
    \/ constructed[r] # <<>> /\ constructed[r][1] # <<>>
    \/ \E i \in 1..Len(outcomes[r]) : outcomes[r][i].err # <<>>

\* C4: on the single-domain path a failed construction or a failed invocation
\* ends the request with a 500 error envelope, success=false, a non-empty
\* error, no results (whatever the runner wrote before it failed) and no
\* further invocation.
C4_SingleFailureFatal ==
    \A r \in Requests :
        (req[r].endpoint = "single" /\ C4_Failed(r))
            => /\ pc[r] = "done"
               /\ response[r] # <<>>
               /\ Resp(r).envelope = "ErrorResponse"
               /\ Resp(r).Success = FALSE
               /\ Resp(r).status = 500
               /\ Resp(r).Error.msg # ""
               /\ Resp(r).Results = <<>>
               /\ Len(constructed[r]) = 1
               /\ Len(calls[r]) = (IF constructed[r][1] # <<>> THEN 0 ELSE 1)

\* A single-domain invocation that wrote hosts and then failed.
C4_Witness ==
    /\ req[1].endpoint = "single"
    /\ pc[1] = "done"
    /\ Len(outcomes[1]) = 1
    /\ outcomes[1][1].err # <<>>
    /\ RecordsOf(outcomes[1][1].text) # <<>>
    /\ Resp(1).status = 500

-----------------------------------------------------------------------------
(* C5 *)

Dots(d) == {i \in 1..Len(d) : d[i] = "."}
Seps(d) == {0} \cup Dots(d) \cup {Len(d) + 1}
\* The lengths of the labels of d: the stretches between neighbouring dots and ends.
LabelLengths(d) ==
    {q - p - 1 : <<p, q>> \in
        {pq \in Seps(d) \X Seps(d) :
            pq[1] < pq[2] /\ ~\E k \in Seps(d) : pq[1] < k /\ k < pq[2]}}

C5_Refused(d) ==
    \/ Len(d) = 0
    \/ Len(d) > 253
    \/ \E i \in 1..(Len(d) - 1) : d[i] = "." /\ d[i + 1] = "."
    \/ d[1] = "."
    \/ d[Len(d)] = "."
    \/ Cardinality(Dots(d)) + 1 < 2
    \/ \E n \in LabelLengths(d) : n = 0 \/ n > 63

\* C5: isValidDomain(d) is false exactly when d is empty or longer than 253,
\* holds "..", starts or ends with ".", has fewer than 2 labels, or has a label
\* of length 0 or more than 63, and true for every other d.
C5_Validator == ret1 # <<>> => ret1[1] = ~C5_Refused(arg)

\* A 254-character name of four well-formed labels was refused.
C5_Witness ==
    /\ ret1 = <<FALSE>>
    /\ Len(arg) = 254
    /\ LabelLengths(arg) = {62, 63}

-----------------------------------------------------------------------------
(* C6 *)

C6_Config(o) ==
    [Threads |-> IF o # <<>> /\ o[1].Threads > 0 THEN o[1].Threads ELSE 10,
     Timeout |-> IF o # <<>> /\ o[1].Timeout > 0 THEN o[1].Timeout ELSE 30,
     MaxEnumerationTime |->
         IF o # <<>> /\ o[1].MaxEnumerationTime > 0 THEN o[1].MaxEnumerationTime ELSE 10,
     JSON |-> TRUE,
     All |-> IF o # <<>> THEN o[1].All ELSE FALSE,
     OnlyRecursive |-> IF o # <<>> THEN o[1].OnlyRecursive ELSE FALSE]

\* C6: in both endpoints the runner's options are the caller's threads, timeout
\* and max_enumeration_time where strictly positive and else 10, 30, 10; all
\* and only_recursive as the caller gave them (false without options); JSON
\* output always on.
C6_EngineConfig ==
    \A r \in Requests :
        /\ opts[r] # <<>> => opts[r][1] = C6_Config(req[r].Options)
        /\ subfinder[r] # 0 => opts[r] # <<>>

\* A batch runner built from options with threads 0 and timeout 45.
C6_Witness ==
    /\ req[1].endpoint = "batch"
    /\ req[1].Options # <<>>
    /\ req[1].Options[1].Threads = 0
    /\ req[1].Options[1].Timeout = 45
    /\ req[1].Options[1].All
    /\ subfinder[1] # 0
    /\ opts[1][1].Threads = 10
    /\ opts[1][1].Timeout = 45
    /\ opts[1][1].All

-----------------------------------------------------------------------------
(* C7 *)

\* C7: parsing never fails and maps lines to records one to one: a line that is
\* blank or {} once trimmed gives none, every other line gives exactly one,
\* (host, source) when it parses and else the trimmed line with the source
\* "subfinder"; in both handlers.
C7_Normalization ==
    /\ ret1 # <<>> => ret1[1] = RecordsOf(arg)
    /\ ret2 # <<>> => ret2[1].allResults = RecordsOf(arg)

\* A padded bare host name followed by a padded {} gave one fallback record.
C7_Witness ==
    /\ arg = <<" ">> \o D_xy \o <<"\r">> \o NL \o <<" ">> \o EmptyObject \o <<"\r">> \o NL
    /\ ret1 # <<>>
    /\ Len(ret1[1]) = 1
    /\ ret1[1][1].Subdomain = D_xy
    /\ ret1[1][1].Sources = <<FallbackSource>>
    /\ ret2 # <<>>

-----------------------------------------------------------------------------
(* C8 *)

\* C8: in a success response count is the number of results and every
\* source_count the number of sources; in the batch handler totalCount equals
\* len(allResults) after every domain.
C8_CountsAgree ==
    \A r \in Requests :
        /\ (response[r] # <<>> /\ Resp(r).Success)
              => /\ Resp(r).Count = Len(Resp(r).Results)
                 /\ \A i \in 1..Len(Resp(r).Results) :
                       Resp(r).Results[i].SourceCount = Len(Resp(r).Results[i].Sources)
        /\ req[r].endpoint = "batch" => totalCount[r] = Len(results[r])

\* A batch response after a failed domain and a domain with a fallback line.
C8_Witness ==
    /\ req[1].endpoint = "batch"
    /\ response[1] # <<>>
    /\ Resp(1).Success
    /\ Len(outcomes[1]) = 2
    /\ outcomes[1][1].err = <<>>
    /\ outcomes[1][1].text = D_xy \o NL \o EmptyObject \o NL
    /\ outcomes[1][2].err # <<>>
    /\ Resp(1).Count = 1

-----------------------------------------------------------------------------
(* C9 *)

\* C9: a batch that passed validation constructs one runner and invokes it once
\* per domain, in the order given, one invocation at a time and none repeated;
\* the response comes after the last invocation has returned.
C9_OneAtATimeInOrder ==
    \A r \in Requests :
        req[r].endpoint = "batch"
            => /\ Len(constructed[r]) <= 1
               /\ Len(calls[r]) <= Len(req[r].Domains)
               /\ \A i \in 1..Len(calls[r]) :
                     /\ calls[r][i].domain = req[r].Domains[i]
                     /\ calls[r][i].runner = subfinder[r]
                     /\ subfinder[r] # 0
               /\ Len(calls[r]) - Len(Returned(r)) \in {0, 1}
               /\ (Len(calls[r]) - Len(Returned(r)) = 1) <=> (pc[r] \in {"invoking", "written"})
               /\ (response[r] # <<>> /\ Resp(r).status = 200)
                     => /\ constructed[r] = << <<>> >>
                        /\ Len(calls[r]) = Len(req[r].Domains)
                        /\ Len(Returned(r)) = Len(req[r].Domains)

\* A batch of two different domains answered after the first invocation failed.
C9_Witness ==
    /\ req[1].endpoint = "batch"
    /\ Len(req[1].Domains) = 2
    /\ req[1].Domains[1] # req[1].Domains[2]
    /\ response[1] # <<>>
    /\ Resp(1).status = 200
    /\ outcomes[1][1].err # <<>>
    /\ Len(calls[1]) = 2

-----------------------------------------------------------------------------
(* C10 *)

RECURSIVE BatchAlone(_, _, _, _)
BatchAlone(rq, outs, i, st) ==
    IF i > Len(rq.Domains) THEN EnumerateResponse(st.allResults, st.totalCount)
    ELSE BatchAlone(rq, outs, batchNext(i, Len(rq.Domains), outs[i].err),
                    batchStep(outs[i].err, outs[i].text, st.allResults, st.totalCount))

\* The response of a request handled with nothing else running: a function of
\* its body, of what NewRunner returned and of what each invocation wrote and
\* returned.
Alone(rq, cons, outs) ==
    LET rej == IF rq.endpoint = "single" THEN singleReject(rq) ELSE batchReject(rq)
    IN  IF rej # <<>> THEN rej[1]
        ELSE IF cons[1] # <<>>
             THEN sendError(Message("Failed to create subfinder runner: %v", cons[1][1]), 500)
        ELSE IF rq.endpoint = "single" THEN singleRespond(outs[1].err, outs[1].text)
        ELSE BatchAlone(rq, outs, 1, [allResults |-> <<>>, totalCount |-> 0])

\* C10: requests in flight together do not interfere: each has a runner and a
\* buffer of its own, its buffer holds what its own invocation wrote, and its
\* response is the one it gives alone with the same engine outputs.
C10_NoInterference ==
    \A r \in Requests :
        /\ response[r] # <<>> => Resp(r) = Alone(req[r], constructed[r], outcomes[r])
        /\ pc[r] = "written" => output[bufferOf(r)] = outcomes[r][Len(outcomes[r])].text
        /\ \A q \in Requests \ {r} :
              /\ bufferOf(q) # bufferOf(r)
              /\ subfinder[r] # 0 => subfinder[q] # subfinder[r]

\* A batch and a single-domain request whose invocations have both written,
\* different texts, and neither has returned.
C10_Witness ==
    /\ req[1].endpoint = "batch"
    /\ req[2].endpoint = "single"
    /\ pc[1] = "written"
    /\ pc[2] = "written"
    /\ results[1] # <<>>
    /\ output[bufferOf(1)] # output[bufferOf(2)]
    /\ output[bufferOf(1)] # <<>>
    /\ output[bufferOf(2)] # <<>>

=============================================================================
